---- MODULE Spec2Model ----
(***************************************************************************)
(* Multi-meter PAC3200 dashboard (src/app.py): the meter registry, the     *)
(* SQLite-backed reading store and its queries, modelled as a state        *)
(* machine.  One action per method of MultiMeterDashboard / PAC3200Meter;  *)
(* the SQL queries are operators over the stored tables.                   *)
(***************************************************************************)
EXTENDS Integers, Sequences, FiniteSets, TLC

VARIABLES
  modbus,     \* MODBUS_AVAILABLE: pymodbus importable (fixed at import time)
  tz,         \* offset of the host's local time from UTC, in hours
  now,        \* the UTC wall clock, in ticks
  cfgTable,   \* the table meters_config exists
  config,     \* rows of meters_config
  schema,     \* pac3200_readings: "none" | "legacy" | "current"
  readings,   \* rows of pac3200_readings, in rowid order
  index,      \* the table idx_readings_meter_timestamp is on, or "none"
  bakTable,   \* the table pac3200_readings_backup exists
  backup,     \* rows of pac3200_readings_backup
  meters,     \* MultiMeterDashboard.meters: meter_id -> PAC3200Meter
  orphans,    \* open sessions of meter objects that have left the registry
  last        \* the last call made: its name, arguments, return value, and
              \* what it found (pre)

vars == <<modbus, tz, now, cfgTable, config, schema, readings, index,
          bakTable, backup, meters, orphans, last>>

(***************************************************************************)
(* Bounds of the model.                                                    *)
(***************************************************************************)
MaxRows == 3        \* rows the reading table may hold
MaxOrphans == 1     \* sessions that may be left behind
MaxTime == 3        \* ticks the clock may advance

\* One hour of wall-clock time, in clock ticks (a tick is 30 minutes).
TicksPerHour == 2

MeterIds == {"m1", "m2"}

(***************************************************************************)
(* Values of a parameter map: Python floats and None.                      *)
(***************************************************************************)
PyNone == [k |-> "none", v |-> 0]
NaN == [k |-> "nan", v |-> 0]
PosInf == [k |-> "inf", v |-> 1]
NegInf == [k |-> "inf", v |-> -1]
Fin(n) == [k |-> "fin", v |-> n]

IsNone(x) == x.k = "none"
\* isinstance(v, float) and np.isnan(v)
IsNaN(x) == x.k = "nan"
\* np.isinf(v)
IsInf(x) == x.k = "inf"

(***************************************************************************)
(* The record kept of a call.                                              *)
(***************************************************************************)
CallPre(op, id, arg, ret, pre) ==
    [op |-> op, id |-> id, arg |-> arg, ret |-> ret, pre |-> pre]

Call(op, id, arg, ret) == CallPre(op, id, arg, ret, 0)

(***************************************************************************)
(* Return values.                                                          *)
(***************************************************************************)
RNone == [t |-> "None"]
RBool(b) == [t |-> "bool", b |-> b]
RInt(n) == [t |-> "int", n |-> n]
RDict(d) == [t |-> "dict", d |-> d]

\* A function with the keys `ks` of f only.
Restrict(f, ks) == [x \in ks |-> f[x]]

(***************************************************************************)
(* The reading table: CREATE TABLE pac3200_readings.                       *)
(***************************************************************************)
MeasureColumns ==
    {
      "V1_N_Voltage", "V2_N_Voltage", "V3_N_Voltage", "V1_V2_Voltage", "V2_V3_Voltage",
      "V3_V1_Voltage", "Maximum_Voltage_V1_n", "Maximum_Voltage_V2_n",
      "Maximum_Voltage_V3_n", "Maximum_Voltage_V1_2", "Maximum_Voltage_V2_3",
      "Maximum_Voltage_V3_1", "Minimum_Voltage_V1_n", "Minimum_Voltage_V2_n",
      "Minimum_Voltage_V3_n", "Minimum_Voltage_V1_2", "Minimum_Voltage_V2_3",
      "Minimum_Voltage_V3_1", "L1_Current", "L2_Current", "L3_Current",
      "Maximum_Current_1", "Maximum_Current_2", "Maximum_Current_3", "Minimum_Current_1",
      "Minimum_Current_2", "Minimum_Current_3", "L1_Active_Power", "L2_Active_Power",
      "L3_Active_Power", "Maximum_Active_Power_1", "Maximum_Active_Power_2",
      "Maximum_Active_Power_3", "Minimum_Active_Power_1", "Minimum_Active_Power_2",
      "Minimum_Active_Power_3", "L1_Reactive_Power", "L2_Reactive_Power",
      "L3_Reactive_Power", "Maximum_Reactive_Power_1", "Maximum_Reactive_Power_2",
      "Maximum_Reactive_Power_3", "Minimum_Reactive_Power_1", "Minimum_Reactive_Power_2",
      "Minimum_Reactive_Power_3", "L1_Apparent_Power", "L2_Apparent_Power",
      "L3_Apparent_Power", "Maximum_Apparent_Power_1", "Maximum_Apparent_Power_2",
      "Maximum_Apparent_Power_3", "Minimum_Apparent_Power_1", "Minimum_Apparent_Power_2",
      "Minimum_Apparent_Power_3", "L1_Power_Factor", "L2_Power_Factor", "L3_Power_Factor",
      "Maximum_Power_Factor_1", "Maximum_Power_Factor_2", "Maximum_Power_Factor_3",
      "Minimum_Power_Factor_1", "Minimum_Power_Factor_2", "Minimum_Power_Factor_3",
      "Total_Active_Power", "Total_Reactive_Power", "Total_Apparent_Power",
      "Total_Power_Factor", "Frequency", "Average_Current", "Average_Voltage_Vph_n",
      "Average_Voltage_Vph_ph", "THD_R_Voltage_1", "THD_R_Voltage_2", "THD_R_Voltage_3",
      "THD_R_Current_1", "THD_R_Current_2", "THD_R_Current_3",
      "Amplitude_Unbalance_Voltage", "Amplitude_Unbalance_Current", "Total_Active_Energy",
      "Total_Reactive_Energy"
    }

ReadingColumns == {"id", "meter_id", "timestamp"} \cup MeasureColumns

\* The columns of a table from an earlier version of the program: it has the
\* deprecated device_id column and no meter_id column.
LegacyColumns == {"id", "device_id", "timestamp"} \cup MeasureColumns

\* PRAGMA table_info(pac3200_readings): the column names, none for no table.
TableInfo(s) ==
    CASE s = "current" -> ReadingColumns
      [] s = "legacy" -> LegacyColumns
      [] OTHER -> {}

\* CURRENT_TIMESTAMP: UTC, to the second.
CurrentTimestamp == now

\* datetime.now(): the host's local time.
LocalNow == now + tz * TicksPerHour


(***************************************************************************)
(* PAC3200Meter.                                                           *)
(***************************************************************************)
\* An argument left out of a call.
Omitted == "<omitted>"
\* SQL NULL in a TEXT column.
SqlNull == "<NULL>"

Default(x, d) == IF x = Omitted THEN d ELSE x
\* Python's `x or ""`.
OrEmpty(x) == IF x = SqlNull THEN "" ELSE x

\* PAC3200Meter.__init__: a connection that was never connected.
NewMeter(meter_id, name, host, port, unit_id, location, description) ==
    [meter_id |-> meter_id, name |-> name, host |-> host, port |-> port,
     unit_id |-> unit_id, location |-> location, description |-> description,
     client |-> "none", connected |-> FALSE,
     last_reading |-> RNone, last_reading_time |-> RNone,
     sessions |-> 0]

(***************************************************************************)
(* The database file as one value, for the methods that run several        *)
(* statements.                                                             *)
(***************************************************************************)
DB ==
    [cfgTable |-> cfgTable, config |-> config, schema |-> schema,
     readings |-> readings, index |-> index, bakTable |-> bakTable,
     backup |-> backup]

SetDB(d) ==
    /\ cfgTable' = d.cfgTable
    /\ config' = d.config
    /\ schema' = d.schema
    /\ readings' = d.readings
    /\ index' = d.index
    /\ bakTable' = d.bakTable
    /\ backup' = d.backup

\* A database file with no tables.
EmptyDB ==
    [cfgTable |-> FALSE, config |-> {}, schema |-> "none", readings |-> <<>>,
     index |-> "none", bakTable |-> FALSE, backup |-> <<>>]

dbvars == <<cfgTable, config, schema, readings, index, bakTable, backup>>

(***************************************************************************)
(* MultiMeterDashboard.init_database.  Its statements are DDL, which       *)
(* sqlite3 runs outside any transaction: each takes effect as it runs.     *)
(* failAt is the statement that raises (0: none):                          *)
(*   1 connect / PRAGMA table_info      5 DROP TABLE IF EXISTS readings    *)
(*   2 SELECT COUNT of the rows         6 CREATE TABLE pac3200_readings    *)
(*   3 ALTER TABLE RENAME / DROP        7 CREATE INDEX IF NOT EXISTS       *)
(*   4 CREATE TABLE IF NOT EXISTS meters_config                            *)
(***************************************************************************)
\* 'device_id' in columns.
LegacyFound(d) == "device_id" \in TableInfo(d.schema)

\* A backup of whatever reading table there is.
BackupAnyTable(d) == d.schema # "none"

\* The legacy table is renamed when it holds rows.
BackupWanted(d) == LegacyFound(d) /\ Len(d.readings) > 0

\* CREATE TABLE IF NOT EXISTS in the place of DROP and CREATE.
KeepReadingsTable(d) == d

\* DROP TABLE IF EXISTS pac3200_readings: its rows and its index go with it.
DropReadings(d) ==
    [d EXCEPT !.schema = "none", !.readings = <<>>,
              !.index = IF @ = "readings" THEN "none" ELSE @]

\* ALTER TABLE pac3200_readings RENAME TO pac3200_readings_backup: the index
\* follows the table.
RenameToBackup(d) ==
    [d EXCEPT !.bakTable = TRUE, !.backup = d.readings,
              !.schema = "none", !.readings = <<>>,
              !.index = IF @ = "readings" THEN "backup" ELSE @]

InitDbResult(d, failAt) ==
    LET legacy == LegacyFound(d)
        rename == BackupWanted(d)
        \* renaming onto an existing table is an error
        clash == rename /\ d.bakTable
        f == IF failAt \in 1..3 THEN failAt
             ELSE IF clash THEN 3
             ELSE failAt
        d3 == IF rename THEN RenameToBackup(d)
              ELSE IF legacy THEN DropReadings(d)
              ELSE d
        d4 == [d3 EXCEPT !.cfgTable = TRUE]
        d5 == DropReadings(d4)
        d6 == [d5 EXCEPT !.schema = "current"]
        d7 == [d6 EXCEPT !.index = IF @ = "none" THEN "readings" ELSE @]
    IN  [ok |-> f = 0,
         db |-> CASE f = 0 -> d7
                  [] f \in 1..3 -> d
                  [] f = 4 -> d3
                  [] f = 5 -> d4
                  [] f = 6 -> d5
                  [] f = 7 -> d6]

\* Statements 2 and 3 run on a legacy table only.
CanFailAt(d, failAt) ==
    failAt \in {2, 3} => "device_id" \in TableInfo(d.schema)

InitDatabase(failAt) ==
    /\ CanFailAt(DB, failAt)
    /\ LET r == InitDbResult(DB, failAt)
       IN  /\ SetDB(r.db)
           /\ last' = CallPre("init_database", "", failAt, RBool(r.ok),
                              [schema |-> schema, count |-> Len(readings),
                               bakTable |-> bakTable,
                               prev |-> IF last.op = "init_database"
                                        THEN [op |-> last.op, ret |-> last.ret]
                                        ELSE [op |-> "other"]])
    /\ UNCHANGED <<modbus, tz, now, orphans, meters>>

(***************************************************************************)
(* MultiMeterDashboard.add_meter.                                          *)
(***************************************************************************)
\* The row INSERT OR REPLACE writes.
ConfigRow(meter_id, a) ==
    [meter_id |-> meter_id, name |-> a.name, host |-> a.host, port |-> a.port,
     unit_id |-> a.unit_id, location |-> Default(a.location, ""),
     description |-> Default(a.description, "")]

\* A plain INSERT into a table without the primary key.
InsertPlain(rows, row) == rows \cup {row}

\* INSERT OR REPLACE INTO meters_config: the row with the same primary key
\* is deleted first.
InsertOrReplace(rows, row) ==
    {r \in rows : r.meter_id # row.meter_id} \cup {row}

\* self.meters[meter_id] = meter
\* The open sessions of the meters of ms registered under ids: the sessions
\* left behind when these entries are overwritten.
RECURSIVE SessionsOf(_, _)
SessionsOf(ms, ids) ==
    IF ids \cap DOMAIN ms = {} THEN 0
    ELSE LET i == CHOOSE x \in ids \cap DOMAIN ms : TRUE
         IN  ms[i].sessions + SessionsOf(ms, ids \ {i})

PutMeter(ms, meter_id, meter) ==
    [i \in DOMAIN ms \cup {meter_id} |-> IF i = meter_id THEN meter ELSE ms[i]]

AddMeter(meter_id, a, dbok) ==
    LET meter == NewMeter(meter_id, a.name, a.host, a.port, a.unit_id,
                          Default(a.location, ""), Default(a.description, ""))
        \* what the call finds: the row and the connection of meter_id
        pre == [rows |-> {r \in config : r.meter_id = meter_id},
                connected |-> meter_id \in DOMAIN meters
                                 /\ meters[meter_id].connected]
    IN  /\ IF dbok /\ cfgTable
           THEN /\ orphans + SessionsOf(meters, {meter_id}) <= MaxOrphans
                /\ config' = InsertOrReplace(config, ConfigRow(meter_id, a))
                /\ meters' = PutMeter(meters, meter_id, meter)
                /\ orphans' = orphans + SessionsOf(meters, {meter_id})
                /\ last' = CallPre("add_meter", meter_id, a, RBool(TRUE), pre)
           ELSE /\ UNCHANGED <<config, meters, orphans>>
                /\ last' = CallPre("add_meter", meter_id, a, RBool(FALSE), pre)
        /\ UNCHANGED <<modbus, tz, now, cfgTable, schema, readings, index,
                       bakTable, backup>>

(***************************************************************************)
(* MultiMeterDashboard.remove_meter.                                       *)
(***************************************************************************)
\* del self.meters[meter_id], after disconnect()
DelMeter(ms, meter_id) == [i \in DOMAIN ms \ {meter_id} |-> ms[i]]

\* remove_meter deleting the meter's readings with its configuration row.
RemoveMeterCascade(meter_id, dbok) ==
    /\ meters' = DelMeter(meters, meter_id)
    /\ IF dbok /\ cfgTable
       THEN /\ config' = {r \in config : r.meter_id # meter_id}
            /\ readings' = SelectSeq(readings, LAMBDA r : r.meter_id # meter_id)
            /\ last' = Call("remove_meter", meter_id, 0, RBool(TRUE))
       ELSE /\ UNCHANGED <<config, readings>>
            /\ last' = Call("remove_meter", meter_id, 0, RBool(FALSE))
    /\ UNCHANGED <<modbus, tz, now, orphans, cfgTable, schema, index, bakTable, backup>>

RemoveMeter(meter_id, dbok) ==
    /\ meters' = DelMeter(meters, meter_id)
    /\ IF dbok /\ cfgTable
       THEN /\ config' = {r \in config : r.meter_id # meter_id}
            /\ last' = Call("remove_meter", meter_id, 0, RBool(TRUE))
       ELSE /\ UNCHANGED config
            /\ last' = Call("remove_meter", meter_id, 0, RBool(FALSE))
    /\ UNCHANGED <<modbus, tz, now, orphans, cfgTable, schema, readings, index,
                   bakTable, backup>>

(***************************************************************************)
(* MultiMeterDashboard.load_meters_config.                                 *)
(***************************************************************************)
\* The row unpacked with port and unit_id in each other's place.
MeterOfRowSwapped(row) ==
    NewMeter(row.meter_id, row.name, row.host, row.unit_id, row.port,
             OrEmpty(row.location), OrEmpty(row.description))

\* The connection built from one row of SELECT * FROM meters_config.
MeterOfRow(row) ==
    NewMeter(row.meter_id, row.name, row.host, row.port, row.unit_id,
             OrEmpty(row.location), OrEmpty(row.description))

\* The registry after the loop over the rows.
LoadedMeters(ms, d, dbok) ==
    IF dbok /\ d.cfgTable
    THEN LET ids == {r.meter_id : r \in d.config}
         IN  [i \in DOMAIN ms \cup ids |->
                 IF i \in ids
                 THEN MeterOfRow(CHOOSE r \in d.config : r.meter_id = i)
                 ELSE ms[i]]
    ELSE ms

\* The ids load_meters_config overwrites in the registry.
LoadedIds(d, dbok) ==
    IF dbok /\ d.cfgTable THEN {r.meter_id : r \in d.config} ELSE {}

LoadMetersConfig(dbok) ==
    /\ orphans + SessionsOf(meters, LoadedIds(DB, dbok)) <= MaxOrphans
    /\ meters' = LoadedMeters(meters, DB, dbok)
    /\ orphans' = orphans + SessionsOf(meters, LoadedIds(DB, dbok))
    /\ last' = Call("load_meters_config", "", dbok, RNone)
    /\ UNCHANGED <<modbus, tz, now, dbvars>>

(***************************************************************************)
(* MultiMeterDashboard.__init__ on the existing database file, at the start *)
(* of the program: a new registry, init_database(), load_meters_config().  *)
(* The sessions of an earlier run ended with its process.                  *)
(***************************************************************************)
Construct(failAt, dbok) ==
    /\ CanFailAt(DB, failAt)
    /\ LET r == InitDbResult(DB, failAt)
       IN  /\ SetDB(r.db)
           /\ meters' = LoadedMeters(<<>>, r.db, dbok)
           /\ last' = Call("construct", "", <<failAt, dbok>>, RNone)
    /\ orphans' = 0
    /\ UNCHANGED <<modbus, tz, now>>

(***************************************************************************)
(* MultiMeterDashboard.save_reading.                                       *)
(***************************************************************************)
\* valid_data without the NaN test.
ValidKeysKeepNaN(data) ==
    {k \in DOMAIN data : ~IsNone(data[k])} \cup {"meter_id"}

\* The keys of valid_data: entries that are not None and not NaN, and meter_id.
ValidKeys(data) ==
    {k \in DOMAIN data : ~IsNone(data[k]) /\ ~IsNaN(data[k])} \cup {"meter_id"}

\* The keys of filtered_data.
FilteredKeys(data, s) ==
    LET existing_columns == TableInfo(s)
        db_columns == existing_columns \ {"id", "timestamp"}
    IN  ValidKeys(data) \cap db_columns

\* The row the INSERT stores: the timestamp is the column's default.
InsertedRow(meter_id, data, s) ==
    LET vals == Restrict(data, FilteredKeys(data, s) \ {"meter_id"})
    IN  IF "meter_id" \in FilteredKeys(data, s)
        THEN [meter_id |-> meter_id, timestamp |-> CurrentTimestamp,
              vals |-> vals]
        ELSE [device_id |-> SqlNull, timestamp |-> CurrentTimestamp,
              vals |-> vals]

\* The table after the call and the value returned: None when the storage
\* fails and when filtered_data is empty, else the id of the new row.
SaveResult(meter_id, data, dbok) ==
    IF ~dbok \/ FilteredKeys(data, schema) = {}
    THEN [readings |-> readings, ret |-> RNone]
    ELSE [readings |-> Append(readings, InsertedRow(meter_id, data, schema)),
          ret |-> RInt(Len(readings) + 1)]

SaveReading(meter_id, data, dbok) ==
    /\ Len(readings) < MaxRows
    /\ readings' = SaveResult(meter_id, data, dbok).readings
    /\ last' = CallPre("save_reading", meter_id, data,
                       SaveResult(meter_id, data, dbok).ret,
                       [dbok |-> dbok])
    /\ UNCHANGED <<modbus, tz, now, orphans, cfgTable, config, schema, index, bakTable,
                   backup, meters>>


(***************************************************************************)
(* PAC3200Meter: the register map, connect, disconnect and the reads.      *)
(***************************************************************************)
\* self.registers: parameter name -> register address.  The dict literal
\* names Maximum_Current_2 twice; the later address stands.
Registers ==
    "V1_N_Voltage" :> 1 @@ "V2_N_Voltage" :> 3 @@ "V3_N_Voltage" :> 5 @@
    "V1_V2_Voltage" :> 7 @@ "V2_V3_Voltage" :> 9 @@ "V3_V1_Voltage" :> 11 @@
    "Maximum_Voltage_V1_n" :> 75 @@ "Maximum_Voltage_V2_n" :> 77 @@ "Maximum_Voltage_V3_n" :> 79 @@
    "Maximum_Voltage_V1_2" :> 81 @@ "Maximum_Voltage_V2_3" :> 83 @@ "Maximum_Voltage_V3_1" :> 85 @@
    "Minimum_Voltage_V1_n" :> 145 @@ "Minimum_Voltage_V2_n" :> 147 @@ "Minimum_Voltage_V3_n" :> 149 @@
    "Minimum_Voltage_V1_2" :> 151 @@ "Minimum_Voltage_V2_3" :> 153 @@ "Minimum_Voltage_V3_1" :> 155 @@
    "THD_R_Voltage_1" :> 43 @@ "THD_R_Voltage_2" :> 45 @@ "THD_R_Voltage_3" :> 47 @@
    "Average_Voltage_Vph_n" :> 57 @@ "Average_Voltage_Vph_ph" :> 59 @@ "Amplitude_Unbalance_Voltage" :> 71 @@
    "L1_Current" :> 13 @@ "L2_Current" :> 15 @@ "L3_Current" :> 17 @@
    "Maximum_Current_1" :> 87 @@ "Maximum_Current_2" :> 159 @@ "Maximum_Current_3" :> 91 @@
    "Minimum_Current_1" :> 157 @@ "Minimum_Current_3" :> 161 @@ "Average_Current" :> 61 @@
    "THD_R_Current_1" :> 49 @@ "THD_R_Current_2" :> 51 @@ "THD_R_Current_3" :> 53 @@
    "Amplitude_Unbalance_Current" :> 73 @@ "L1_Active_Power" :> 25 @@ "L2_Active_Power" :> 27 @@
    "L3_Active_Power" :> 29 @@ "Maximum_Active_Power_1" :> 99 @@ "Maximum_Active_Power_2" :> 101 @@
    "Maximum_Active_Power_3" :> 103 @@ "Minimum_Active_Power_1" :> 169 @@ "Minimum_Active_Power_2" :> 171 @@
    "Minimum_Active_Power_3" :> 173 @@ "Total_Active_Power" :> 65 @@ "L1_Reactive_Power" :> 31 @@
    "L2_Reactive_Power" :> 33 @@ "L3_Reactive_Power" :> 35 @@ "Maximum_Reactive_Power_1" :> 105 @@
    "Maximum_Reactive_Power_2" :> 107 @@ "Maximum_Reactive_Power_3" :> 109 @@ "Minimum_Reactive_Power_1" :> 175 @@
    "Minimum_Reactive_Power_2" :> 177 @@ "Minimum_Reactive_Power_3" :> 179 @@ "Total_Reactive_Power" :> 67 @@
    "L1_Apparent_Power" :> 19 @@ "L2_Apparent_Power" :> 21 @@ "L3_Apparent_Power" :> 23 @@
    "Maximum_Apparent_Power_1" :> 93 @@ "Maximum_Apparent_Power_2" :> 95 @@ "Maximum_Apparent_Power_3" :> 97 @@
    "Minimum_Apparent_Power_1" :> 163 @@ "Minimum_Apparent_Power_2" :> 165 @@ "Minimum_Apparent_Power_3" :> 167 @@
    "Total_Apparent_Power" :> 63 @@ "L1_Power_Factor" :> 37 @@ "L2_Power_Factor" :> 39 @@
    "L3_Power_Factor" :> 41 @@ "Maximum_Power_Factor_1" :> 111 @@ "Maximum_Power_Factor_2" :> 113 @@
    "Maximum_Power_Factor_3" :> 115 @@ "Minimum_Power_Factor_1" :> 181 @@ "Minimum_Power_Factor_2" :> 183 @@
    "Minimum_Power_Factor_3" :> 185 @@ "Total_Power_Factor" :> 69 @@ "Frequency" :> 55 @@
    "Total_Active_Energy" :> 801 @@ "Total_Reactive_Energy" :> 805

\* What the wire can answer to one read_holding_registers of two words.
WireError == [k |-> "error", v |-> 0]      \* rr.isError()
WireRaises == [k |-> "raises", v |-> 0]    \* the read raises

\* _generate_simulated_value: a finite number, drawn at random.
GenerateSimulatedValue(register_address, sim) == Fin(sim)

\* read_holding_registers is called: live mode, a client with an open socket.
ReadAttempted(m) == modbus /\ m.client = "open"

\* read_float32_register testing the decoded value for NaN only.
ReadFloat32RegisterKeepInf(m, register_address, wire, sim) ==
    IF ~modbus THEN GenerateSimulatedValue(register_address, sim)
    ELSE IF m.client # "open" THEN PyNone
    ELSE IF wire.k \in {"error", "raises"} THEN PyNone
    ELSE IF IsNaN(wire) THEN PyNone
    ELSE wire

\* read_float32_register, with `wire` the answer of the meter (live mode) and
\* `sim` the draw of the generator (demo mode).
ReadFloat32Register(m, register_address, wire, sim) ==
    IF ~modbus THEN GenerateSimulatedValue(register_address, sim)
    ELSE IF m.client # "open" THEN PyNone
    ELSE IF wire.k \in {"error", "raises"} THEN PyNone
    ELSE IF IsNaN(wire) \/ IsInf(wire) THEN PyNone
    ELSE wire

\* read_all_parameters leaving out the parameters whose read gave no value.
ReadAllDataSkip(m, wires, sim) ==
    [p \in {q \in DOMAIN Registers :
               ReadFloat32Register(m, Registers[q], wires[q], sim) # PyNone} |->
        ReadFloat32Register(m, Registers[p], wires[p], sim)]

\* read_all_parameters: one entry per key of the register map.
ReadAllData(m, wires, sim) ==
    [p \in DOMAIN Registers |->
        ReadFloat32Register(m, Registers[p], wires[p], sim)]

\* read_all_parameters connecting a meter that is not connected.
ReadAllParametersReconnect(meter_id, wires, sim) ==
    /\ meter_id \in DOMAIN meters
    /\ LET m == [meters[meter_id] EXCEPT !.connected = TRUE]
           data == ReadAllData(m, wires, sim)
       IN  /\ meters' = [meters EXCEPT
                 ![meter_id] = [m EXCEPT !.last_reading = RDict(data),
                                         !.last_reading_time = RInt(LocalNow)]]
           /\ last' = CallPre("read_all_parameters", meter_id, wires,
                              RDict(data),
                              [attempted |-> ReadAttempted(meters[meter_id]),
                               connected |-> meters[meter_id].connected,
                               client |-> meters[meter_id].client])
    /\ UNCHANGED <<modbus, tz, now, orphans, dbvars>>

ReadAllParameters(meter_id, wires, sim) ==
    /\ meter_id \in DOMAIN meters
    /\ LET data == ReadAllData(meters[meter_id], wires, sim)
       IN  /\ meters' = [meters EXCEPT
                 ![meter_id].last_reading = RDict(data),
                 ![meter_id].last_reading_time = RInt(LocalNow)]
           /\ last' = CallPre("read_all_parameters", meter_id, wires,
                              RDict(data),
                              [attempted |-> ReadAttempted(meters[meter_id]),
                               connected |-> meters[meter_id].connected,
                               client |-> meters[meter_id].client])
    /\ UNCHANGED <<modbus, tz, now, orphans, dbvars>>

\* One turn of the collect loops of main for a meter: the batch is read when
\* the meter is connected (always in demo mode) and saved.
Collect(meter_id, wires, sim, dbok) ==
    /\ meter_id \in DOMAIN meters
    /\ meters[meter_id].connected \/ ~modbus
    /\ Len(readings) < MaxRows
    /\ LET data == ReadAllData(meters[meter_id], wires, sim)
       IN  /\ meters' = [meters EXCEPT
                 ![meter_id].last_reading = RDict(data),
                 ![meter_id].last_reading_time = RInt(LocalNow)]
           /\ readings' = SaveResult(meter_id, data, dbok).readings
           /\ last' = Call("collect", meter_id, data,
                           SaveResult(meter_id, data, dbok).ret)
    /\ UNCHANGED <<modbus, tz, now, orphans, cfgTable, config, schema, index, bakTable,
                   backup>>

\* connect taking the transport's connect for the whole test.
ConnectedMeterNoProbe(m, outcome) ==
    IF ~modbus THEN [m EXCEPT !.connected = TRUE]
    ELSE CASE outcome \in {"init_raises", "refused"} ->
                [m EXCEPT !.client = IF @ = "none" /\ outcome = "init_raises"
                                    THEN "none" ELSE "closed",
                          !.sessions = 0, !.connected = FALSE]
           [] OTHER ->
                [m EXCEPT !.client = "open", !.sessions = 1,
                          !.connected = TRUE]

\* The prior client left as it is.
PriorKept(m) == m

\* if self.client: self.client.close()
PriorClosed(m) ==
    IF m.client = "none" THEN m
    ELSE [m EXCEPT !.client = "closed",
                   !.sessions = IF m.client = "open" THEN @ - 1 ELSE @]

\* connect.  `outcome` is what the transport does in live mode:
\*   "init_raises"  ModbusClient(...) raises
\*   "refused"      client.connect() returns False (or raises)
\*   "probe_error"  the probe read answers an error (or raises)
\*   "ok"           the transport connects and the probe read succeeds
\* client is "none" (no client object), "open" (its socket is open) or
\* "closed"; sessions counts the open sockets of the clients this meter
\* object has made.
ConnectedMeter(m, outcome) ==
    IF ~modbus THEN [m EXCEPT !.connected = TRUE]
    ELSE LET c == PriorClosed(m)
         IN  CASE outcome = "init_raises" ->
                    [c EXCEPT !.connected = FALSE]
               [] outcome = "refused" ->
                    [c EXCEPT !.client = "closed", !.connected = FALSE]
               [] outcome = "probe_error" ->
                    [c EXCEPT !.client = "open", !.sessions = @ + 1,
                              !.connected = FALSE]
               [] OTHER ->
                    [c EXCEPT !.client = "open", !.sessions = @ + 1,
                              !.connected = TRUE]

Connect(meter_id, outcome) ==
    /\ meter_id \in DOMAIN meters
    /\ LET m == ConnectedMeter(meters[meter_id], outcome)
       IN  /\ meters' = [meters EXCEPT ![meter_id] = m]
           /\ last' = CallPre("connect", meter_id, outcome, RBool(m.connected),
                              [client |-> meters[meter_id].client,
                               connected |-> meters[meter_id].connected,
                               prev |-> IF last.op = "connect"
                                        THEN [op |-> last.op, id |-> last.id,
                                              arg |-> last.arg]
                                        ELSE [op |-> "other"]])
    /\ UNCHANGED <<modbus, tz, now, orphans, dbvars>>

\* disconnect marking the meter not connected and leaving its client alone.
DisconnectedMeterFlagOnly(m) == [m EXCEPT !.connected = FALSE]

\* disconnect
DisconnectedMeter(m) ==
    [(IF modbus THEN PriorClosed(m) ELSE m) EXCEPT !.connected = FALSE]

Disconnect(meter_id) ==
    /\ meter_id \in DOMAIN meters
    /\ meters' = [meters EXCEPT ![meter_id] = DisconnectedMeter(@)]
    /\ last' = CallPre("disconnect", meter_id, 0, RNone,
                       [client |-> meters[meter_id].client,
                        connected |-> meters[meter_id].connected])
    /\ UNCHANGED <<modbus, tz, now, orphans, dbvars>>

\* The meter or the network closes the session: the socket of the client is
\* no longer open; the meter object is not told.
SessionDrop(meter_id) ==
    /\ modbus
    /\ meter_id \in DOMAIN meters
    /\ meters[meter_id].client = "open"
    /\ meters' = [meters EXCEPT ![meter_id].client = "closed",
                                ![meter_id].sessions = @ - 1]
    /\ last' = Call("session_drop", meter_id, 0, RNone)
    /\ UNCHANGED <<modbus, tz, now, orphans, dbvars>>

\* One call of read_float32_register by the presentation layer.
ReadRegister(meter_id, register_address, wire, sim) ==
    /\ meter_id \in DOMAIN meters
    /\ last' = CallPre("read_float32_register", meter_id,
                       [register_address |-> register_address, wire |-> wire],
                       ReadFloat32Register(meters[meter_id], register_address,
                                           wire, sim),
                       [attempted |-> ReadAttempted(meters[meter_id]),
                        connected |-> meters[meter_id].connected,
                        client |-> meters[meter_id].client])
    /\ UNCHANGED <<modbus, tz, now, orphans, dbvars, meters>>

(***************************************************************************)
(* The wall clock.                                                         *)
(***************************************************************************)
Tick ==
    /\ now < MaxTime
    /\ now' = now + 1
    /\ last' = Call("tick", "", 0, RNone)
    /\ UNCHANGED <<modbus, tz, orphans, dbvars, meters>>


\* Offsets of the host's local time from UTC, in hours.
TzOffsets == {-1, 0, 1}

(***************************************************************************)
(* Inputs.                                                                 *)
(***************************************************************************)
\* Arguments of add_meter: the form's defaults, and a meter with every field
\* given.
AddArgs ==
    {[name |-> "PAC3200 #1", host |-> "192.168.0.101", port |-> 502,
      unit_id |-> 1, location |-> Omitted, description |-> Omitted],
     [name |-> "Feeder", host |-> "10.0.0.7", port |-> 1502,
      unit_id |-> 2, location |-> "hall", description |-> "main"]}

\* Parameter maps handed to save_reading.
SaveInputs ==
    {<<>>,
     [p \in {"Total_Active_Power", "Frequency"} |->
         IF p = "Frequency" THEN NaN ELSE PyNone],
     [p \in {"Bogus_Param"} |-> Fin(100)],
     [p \in {"Total_Active_Power", "Frequency", "V1_N_Voltage", "Bogus_Param",
             "timestamp"} |->
         CASE p = "Total_Active_Power" -> Fin(150)
           [] p = "Frequency" -> NaN
           [] p = "V1_N_Voltage" -> PyNone
           [] OTHER -> Fin(7)],
     [p \in {"Total_Active_Power"} |-> Fin(100)],
     [p \in {"Frequency"} |-> PosInf],
     [p \in {"Frequency"} |-> NegInf]}

\* What a meter answers to the reads of one batch: the same to every read,
\* or a failure on one register only.
WireAnswers == {WireError, WireRaises, NaN, PosInf, Fin(100)}

WirePatterns ==
    {[p \in DOMAIN Registers |-> w] : w \in WireAnswers}
    \cup {[p \in DOMAIN Registers |-> IF p = "Frequency" THEN w ELSE Fin(100)] :
            w \in {WireError, NaN}}

SimValues == {100}

ConnectOutcomes == {"init_raises", "refused", "probe_error", "ok"}

(***************************************************************************)
(* The state after MultiMeterDashboard() on a new database file: the       *)
(* registry is empty; the tables are there unless init_database failed.    *)
(***************************************************************************)
InitWith(fails) ==
    /\ modbus \in BOOLEAN
    /\ tz \in TzOffsets
    /\ now = 0
    /\ \E f \in fails :
         LET d == InitDbResult(EmptyDB, f).db
         IN  /\ cfgTable = d.cfgTable
             /\ config = d.config
             /\ schema = d.schema
             /\ readings = d.readings
             /\ index = d.index
             /\ bakTable = d.bakTable
             /\ backup = d.backup
             /\ last = Call("construct", "", <<f, TRUE>>, RNone)
    /\ meters = <<>>
    /\ orphans = 0

(***************************************************************************)
(* The reading store: save_reading on every kind of parameter map, with    *)
(* the storage failing or not, and the calls that change the tables.       *)
(***************************************************************************)
StoreIds == {"m1"}

InitStore == InitWith({0, 1}) /\ modbus = FALSE /\ tz = 0

NextStore ==
    \/ \E id \in StoreIds, d \in SaveInputs, ok \in BOOLEAN :
         SaveReading(id, d, ok)
    \/ \E f \in {0, 1, 6} : InitDatabase(f)

SpecStore == InitStore /\ [][NextStore]_vars


(***************************************************************************)
(* The queries.  A result is a set of DataFrames: SQLite leaves the order  *)
(* of rows that tie on the ORDER BY key open.                              *)
(***************************************************************************)
\* Row i of pac3200_readings with its id column.
RowAt(i) ==
    [id |-> i, meter_id |-> readings[i].meter_id,
     timestamp |-> readings[i].timestamp, vals |-> readings[i].vals]

\* The sequences that list every element of S once.
Orderings(S) ==
    {s \in [1..Cardinality(S) -> S] :
        \A i, j \in 1..Cardinality(S) : i # j => s[i] # s[j]}

\* ORDER BY timestamp DESC
NewestFirst(s) ==
    \A i, j \in 1..Len(s) : i < j => s[i].timestamp >= s[j].timestamp

\* timedelta(hours=hours), in clock ticks
HoursDelta(hours) == hours * TicksPerHour

\* timestamp BETWEEN start_time AND end_time, both taken from datetime.now()
InWindow(t, hours) ==
    LET end_time == LocalNow
        start_time == end_time - HoursDelta(hours)
    IN  start_time <= t /\ t <= end_time

\* get_meter_readings: an empty DataFrame when the query raises.
GetMeterReadings(meter_id, hours, dbok) ==
    IF ~dbok \/ schema # "current" THEN {<<>>}
    ELSE LET hits == {RowAt(i) : i \in {j \in 1..Len(readings) :
                        /\ readings[j].meter_id = meter_id
                        /\ InWindow(readings[j].timestamp, hours)}}
         IN  {s \in Orderings(hits) : NewestFirst(s)}

\* SELECT meter_id, MAX(timestamp) ... GROUP BY meter_id
MaxTimestamp(meter_id) ==
    LET ts == {readings[i].timestamp : i \in {j \in 1..Len(readings) :
                  readings[j].meter_id = meter_id}}
    IN  CHOOSE t \in ts : \A u \in ts : u <= t

\* The query with meters_config LEFT JOINed: a row for unconfigured meters too.
GetAllMetersLatestOuter(dbok) ==
    IF ~dbok \/ schema # "current" \/ ~cfgTable THEN {}
    ELSE {[r |-> RowAt(i), name |-> SqlNull, location |-> SqlNull] :
            i \in {j \in 1..Len(readings) :
                readings[j].timestamp = MaxTimestamp(readings[j].meter_id)}}

\* get_all_meters_latest: the rows of the two inner joins (ORDER BY m.name
\* left out: the result is kept as a set of rows).
GetAllMetersLatest(dbok) ==
    IF ~dbok \/ schema # "current" \/ ~cfgTable THEN {}
    ELSE {[r |-> RowAt(i), name |-> m.name, location |-> m.location] :
            <<i, m>> \in {x \in (1..Len(readings)) \X config :
                /\ readings[x[1]].meter_id = x[2].meter_id
                /\ readings[x[1]].timestamp
                      = MaxTimestamp(readings[x[1]].meter_id)}}

\* SUM(col) and AVG(col) over the rows I: NULL values are skipped, no value
\* at all gives NULL.  The average is kept as the pair sum / count.
RECURSIVE SumCol(_, _)
SumCol(I, col) ==
    IF I = {} THEN 0
    ELSE LET i == CHOOSE x \in I : TRUE
         IN  readings[i].vals[col].v + SumCol(I \ {i}, col)

WithCol(I, col) == {i \in I : col \in DOMAIN readings[i].vals}

SqlSum(I, col) ==
    IF WithCol(I, col) = {} THEN PyNone ELSE Fin(SumCol(WithCol(I, col), col))

SqlAvg(I, col) ==
    IF WithCol(I, col) = {} THEN PyNone
    ELSE [k |-> "avg", sum |-> SumCol(WithCol(I, col), col),
          count |-> Cardinality(WithCol(I, col))]

\* get_aggregated_data: one row per timestamp value in the window (the groups
\* have distinct timestamps, so ORDER BY timestamp DESC fixes their order).
GetAggregatedData(hours, dbok) ==
    IF ~dbok \/ schema # "current" THEN {}
    ELSE LET hit == {i \in 1..Len(readings) :
                        InWindow(readings[i].timestamp, hours)}
             group(t) == {i \in hit : readings[i].timestamp = t}
         IN  {[timestamp |-> t,
               Total_System_Power |-> SqlSum(group(t), "Total_Active_Power"),
               Avg_Frequency |-> SqlAvg(group(t), "Frequency"),
               Avg_Power_Factor |-> SqlAvg(group(t), "Total_Power_Factor"),
               Active_Meters |->
                   Cardinality({readings[i].meter_id : i \in group(t)})] :
              t \in {readings[i].timestamp : i \in hit}}

(***************************************************************************)
(* The queries over time: meters are added and removed, the readings of    *)
(* registered meters saved (as the collect loops of main do), the clock    *)
(* advances; the host's time zone is any offset from UTC.                  *)
(***************************************************************************)
QueryInputs ==
    {[p \in {"Total_Active_Power"} |-> Fin(100)],
     [p \in {"Total_Active_Power", "Frequency"} |->
         IF p = "Frequency" THEN Fin(50) ELSE Fin(150)]}

QueryArgs ==
    {[name |-> "PAC3200 #1", host |-> "192.168.0.101", port |-> 502,
      unit_id |-> 1, location |-> Omitted, description |-> Omitted]}

\* The time ranges of the selector, in hours (the shortest ones).
QueryHours == {1, 2}

InitQuery == InitWith({0}) /\ modbus = FALSE

NextQuery ==
    \/ \E id \in MeterIds, a \in QueryArgs : AddMeter(id, a, TRUE)
    \/ \E id \in MeterIds : RemoveMeter(id, TRUE)
    \/ \E id \in DOMAIN meters, d \in QueryInputs : SaveReading(id, d, TRUE)
    \/ Tick

SpecQuery == InitQuery /\ [][NextQuery]_vars

(***************************************************************************)
(* Claims about save_reading.                                              *)
(***************************************************************************)
\* No entry of the map survives the filters: every entry is None or NaN, or
\* its key is no column of the reading table (the empty map included).
NoSurvivor(data, s) ==
    \A k \in DOMAIN data :
        IsNone(data[k]) \/ IsNaN(data[k]) \/ k \notin TableInfo(s)

\* C1: a save_reading whose parameter map has no surviving entry inserts no
\* row and returns None.
C1_NothingSaved ==
    [][(last'.op = "save_reading" /\ NoSurvivor(last'.arg, schema))
          => (readings' = readings /\ last'.ret = RNone)]_vars

\* C2: every stored row names columns of the reading table only and holds no
\* None and no NaN; the row a save_reading call inserted carries the meter id
\* and only entries of the map passed, with their values.
C2_OnlyKnownNonNull ==
    /\ \A i \in 1..Len(readings) :
          /\ DOMAIN readings[i].vals \subseteq TableInfo(schema)
          /\ \A k \in DOMAIN readings[i].vals :
                ~IsNone(readings[i].vals[k]) /\ ~IsNaN(readings[i].vals[k])
    /\ (last.op = "save_reading" /\ last.ret # RNone) =>
          LET row == readings[last.ret.n]
          IN  /\ row.meter_id = last.id
              /\ DOMAIN row.vals \subseteq DOMAIN last.arg
              /\ \A k \in DOMAIN row.vals : row.vals[k] = last.arg[k]

\* A mixed map was saved: its None, NaN and unknown entries were dropped and
\* the one good entry stored.
C2_Witness ==
    /\ last.op = "save_reading"
    /\ last.ret # RNone
    /\ DOMAIN last.arg = {"Total_Active_Power", "Frequency", "V1_N_Voltage",
                          "Bogus_Param", "timestamp"}
    /\ DOMAIN readings[last.ret.n].vals = {"Total_Active_Power"}

\* C3: no field of a stored reading is NaN or infinite.
C3_NoNaNNoInf ==
    \A i \in 1..Len(readings) :
        \A k \in DOMAIN readings[i].vals :
            ~IsNaN(readings[i].vals[k]) /\ ~IsInf(readings[i].vals[k])



(***************************************************************************)
(* Claims about the queries.                                               *)
(***************************************************************************)
HasRows(id) == \E i \in 1..Len(readings) : readings[i].meter_id = id
HasConfig(id) == \E m \in config : m.meter_id = id
LatestOf(id) == {x \in GetAllMetersLatest(TRUE) : x.r.meter_id = id}

\* The rows whose stored timestamp lies in [now - hours, now], now being the
\* time of the query on the clock that stamps the rows.
StoredInRange(hours) ==
    {i \in 1..Len(readings) :
        /\ now - HoursDelta(hours) <= readings[i].timestamp
        /\ readings[i].timestamp <= now}

\* C4: get_all_meters_latest returns at most one row per meter id, and that
\* row carries the largest timestamp of the meter's readings.
C4_OneLatestPerMeter ==
    \A id \in MeterIds :
        /\ Cardinality(LatestOf(id)) <= 1
        /\ \A x \in LatestOf(id) : x.r.timestamp = MaxTimestamp(id)

\* C5 as claimed: every meter id with a stored reading has a row in the
\* result of get_all_meters_latest, configured or not.
C5_LatestForEveryStored ==
    \A id \in MeterIds : HasRows(id) => LatestOf(id) # {}

\* C5 as amended: a meter id has a row in the result of get_all_meters_latest
\* exactly when it has a stored reading and a row in meters_config; the
\* readings of a removed meter stay stored and are left out of the result.
C5_LatestForConfigured ==
    \A id \in MeterIds : LatestOf(id) # {} <=> (HasRows(id) /\ HasConfig(id))

\* A meter with readings was removed and is left out; another meter with
\* readings and a configuration row is reported.
C5_Witness ==
    /\ last.op = "remove_meter"
    /\ last.ret = RBool(TRUE)
    /\ HasRows(last.id)
    /\ LatestOf(last.id) = {}
    /\ \E id \in MeterIds : HasRows(id) /\ HasConfig(id) /\ LatestOf(id) # {}

\* C6: get_meter_readings(meter_id, hours) returns exactly the stored readings
\* of the meter whose timestamp lies in [now - hours, now], newest first.
C6_RangeExact ==
    \A id \in MeterIds, hours \in QueryHours :
        \A s \in GetMeterReadings(id, hours, TRUE) :
            /\ {s[j].id : j \in 1..Len(s)}
                  = {i \in StoredInRange(hours) : readings[i].meter_id = id}
            /\ NewestFirst(s)

\* C7: get_aggregated_data(hours) returns one row per distinct timestamp of
\* the readings in [now - hours, now] and none for other readings; a row
\* counts the distinct meters and sums the total active power of the
\* readings with its timestamp.
C7_AggregateExact ==
    \A hours \in QueryHours :
        LET res == GetAggregatedData(hours, TRUE)
            win == StoredInRange(hours)
            at(t) == {i \in win : readings[i].timestamp = t}
        IN  /\ {g.timestamp : g \in res} = {readings[i].timestamp : i \in win}
            /\ Cardinality(res) = Cardinality({readings[i].timestamp : i \in win})
            /\ \A g \in res :
                  /\ g.Active_Meters
                        = Cardinality({readings[i].meter_id : i \in at(g.timestamp)})
                  /\ g.Total_System_Power
                        = SqlSum(at(g.timestamp), "Total_Active_Power")



(***************************************************************************)
(* The registry: meters are added, replaced, removed and reloaded, the     *)
(* storage failing or not, and connected and disconnected.                 *)
(***************************************************************************)
RegFails == {0, 1}

InitRegistry == InitWith({0, 1}) /\ tz = 0

NextRegistry ==
    \/ \E id \in MeterIds, a \in AddArgs, ok \in BOOLEAN : AddMeter(id, a, ok)
    \/ \E id \in MeterIds, ok \in BOOLEAN : RemoveMeter(id, ok)
    \/ \E ok \in BOOLEAN : LoadMetersConfig(ok)
    \/ \E f \in RegFails, ok \in BOOLEAN : Construct(f, ok)
    \/ \E id \in MeterIds, o \in ConnectOutcomes : Connect(id, o)
    \/ \E id \in MeterIds : Disconnect(id)

SpecRegistry == InitRegistry /\ [][NextRegistry]_vars

(***************************************************************************)
(* The whole dashboard: every method, for one meter on a host in UTC, the  *)
(* clock stopped.                                                          *)
(***************************************************************************)
SysIds == {"m1"}

SysInputs == {[p \in {"Total_Active_Power"} |-> Fin(100)]}

SysWires ==
    {[p \in DOMAIN Registers |-> IF p = "Frequency" THEN WireError ELSE Fin(100)]}

SysFails == {0, 1, 4, 5, 6, 7}

\* Answers of the meter to a single read.
SysAnswers == {WireError, Fin(100)}

Init == InitWith({0}) /\ tz = 0

Next ==
    \/ \E id \in SysIds, a \in QueryArgs, ok \in BOOLEAN : AddMeter(id, a, ok)
    \/ \E id \in SysIds, ok \in BOOLEAN : RemoveMeter(id, ok)
    \/ \E ok \in BOOLEAN : LoadMetersConfig(ok)
    \/ \E f \in SysFails, ok \in BOOLEAN : Construct(f, ok)
    \/ \E f \in SysFails : InitDatabase(f)
    \/ \E id \in SysIds, d \in SysInputs, ok \in BOOLEAN :
         SaveReading(id, d, ok)
    \/ \E id \in SysIds, w \in SysWires, v \in SimValues :
         ReadAllParameters(id, w, v)
    \/ \E id \in SysIds, w \in SysWires, v \in SimValues, ok \in BOOLEAN :
         Collect(id, w, v, ok)
    \/ \E id \in SysIds, o \in ConnectOutcomes : Connect(id, o)
    \/ \E id \in SysIds : Disconnect(id)
    \/ \E id \in SysIds, w \in SysAnswers, v \in SimValues :
         ReadRegister(id, 1, w, v)

Spec == Init /\ [][Next]_vars


(***************************************************************************)
(* Claims about the rows of the reading table and about the registry.      *)
(***************************************************************************)
\* C8: no call but init_database (alone or in the constructor) changes or
\* deletes a stored row: a save that returns a row id appends one row, and
\* every other call leaves the table as it is, remove_meter included.
C8_ReadingsKept ==
    [][CASE last'.op \in {"init_database", "construct"} -> TRUE
         [] last'.op \in {"save_reading", "collect"} ->
              IF last'.ret # RNone
              THEN /\ Len(readings') = Len(readings) + 1
                   /\ SubSeq(readings', 1, Len(readings)) = readings
              ELSE readings' = readings
         [] OTHER -> readings' = readings]_vars

\* A meter was removed and its readings are still stored.
C8_Witness ==
    /\ last.op = "remove_meter"
    /\ last.ret = RBool(TRUE)
    /\ \E i \in 1..Len(readings) : readings[i].meter_id = last.id
    /\ ~\E m \in config : m.meter_id = last.id

\* C9: meters_config holds at most one row per meter id; after a successful
\* add_meter the row of the id holds the values passed and the registry
\* holds a new connection with these values that is not connected.
C9_UniqueUpsert ==
    /\ \A r1, r2 \in config : r1.meter_id = r2.meter_id => r1 = r2
    /\ (last.op = "add_meter" /\ last.ret = RBool(TRUE)) =>
          LET a == last.arg
              loc == IF a.location = Omitted THEN "" ELSE a.location
              desc == IF a.description = Omitted THEN "" ELSE a.description
          IN  /\ \E r \in config :
                    /\ r.meter_id = last.id
                    /\ r.name = a.name /\ r.host = a.host /\ r.port = a.port
                    /\ r.unit_id = a.unit_id /\ r.location = loc
                    /\ r.description = desc
              /\ last.id \in DOMAIN meters
              /\ LET m == meters[last.id]
                 IN  /\ m.meter_id = last.id
                     /\ m.name = a.name /\ m.host = a.host /\ m.port = a.port
                     /\ m.unit_id = a.unit_id /\ m.location = loc
                     /\ m.description = desc
                     /\ ~m.connected /\ m.client = "none"
                     /\ m.last_reading = RNone

\* A connected meter was added again with other values.
C9_Witness ==
    /\ last.op = "add_meter"
    /\ last.ret = RBool(TRUE)
    /\ last.pre.connected
    /\ last.pre.rows # {}
    /\ \A r \in last.pre.rows : r.name # last.arg.name
    /\ ~meters[last.id].connected

\* C10: a registry constructed right after a successful add_meter, its SELECT
\* of meters_config succeeding, holds a connection for the id with the host,
\* port, unit id and location passed ("" for a location left out).
C10_RoundTrip ==
    [][(/\ last.op = "add_meter" /\ last.ret = RBool(TRUE)
        /\ last'.op = "construct" /\ last'.arg[2])
          => /\ last.id \in DOMAIN meters'
             /\ LET m == meters'[last.id]
                IN  /\ m.host = last.arg.host
                    /\ m.port = last.arg.port
                    /\ m.unit_id = last.arg.unit_id
                    /\ m.location = IF last.arg.location = Omitted THEN ""
                                    ELSE last.arg.location]_vars

\* A new registry holds a meter added without a location and one added with.
C10_Witness ==
    /\ last.op = "construct"
    /\ last.arg[2]
    /\ \E i, j \in DOMAIN meters :
          /\ meters[i].location = "" /\ meters[i].port = 502
          /\ meters[j].location = "hall" /\ meters[j].port = 1502


(***************************************************************************)
(* init_database on the database files the program can find at its start:  *)
(* no file, or the file of an earlier version with the device_id table,    *)
(* with or without rows, with or without a backup table left by an earlier *)
(* migration.  The state before MultiMeterDashboard() runs.                *)
(***************************************************************************)
LegacyRow(n) ==
    [device_id |-> "dev1", timestamp |-> n,
     vals |-> [p \in {"Frequency"} |-> Fin(50)]]

LegacyFiles ==
    {[cfgTable |-> FALSE, config |-> {}, schema |-> "legacy", readings |-> r,
      index |-> i, bakTable |-> b, backup |-> IF b THEN <<LegacyRow(0)>> ELSE <<>>]
        : r \in {<<>>, <<LegacyRow(1)>>, <<LegacyRow(1), LegacyRow(2)>>},
          i \in {"none", "readings"}, b \in BOOLEAN}

StoredFiles == {EmptyDB} \cup LegacyFiles

InitFails == 0..7

InitInputs == {[p \in {"Total_Active_Power"} |-> Fin(100)]}

InitFile ==
    /\ modbus = FALSE
    /\ tz = 0
    /\ now = 0
    /\ meters = <<>>
    /\ orphans = 0
    /\ last = Call("start", "", 0, RNone)
    /\ \E d \in StoredFiles :
         /\ cfgTable = d.cfgTable
         /\ config = d.config
         /\ schema = d.schema
         /\ readings = d.readings
         /\ index = d.index
         /\ bakTable = d.bakTable
         /\ backup = d.backup

NextInit ==
    \/ \E f \in InitFails : InitDatabase(f)
    \/ \E f \in InitFails : Construct(f, TRUE)
    \/ \E d \in InitInputs, ok \in BOOLEAN : SaveReading("m1", d, ok)

SpecInit == InitFile /\ [][NextInit]_vars

\* C11: after an init_database that returns True the reading table has the
\* current columns and no rows, the rows it held are in the backup table if
\* they were rows of a legacy table and are gone otherwise, and
\* meters_config exists.
C11_InitRecreates ==
    [][(last'.op = "init_database" /\ last'.ret = RBool(TRUE))
          => /\ schema' = "current"
             /\ TableInfo(schema') = ReadingColumns
             /\ readings' = <<>>
             /\ cfgTable'
             /\ backup' = IF schema = "legacy" /\ readings # <<>>
                          THEN readings ELSE backup]_vars

\* init_database returned True on a current table with rows: they are gone
\* and in no backup table.
C11_Witness ==
    /\ last.op = "init_database"
    /\ last.ret = RBool(TRUE)
    /\ last.pre.schema = "current"
    /\ last.pre.count > 0
    /\ readings = <<>>
    /\ schema = "current"
    /\ ~bakTable

\* C12: an init_database whose statements the storage does not refuse, on a
\* table with the device_id column: with rows, the backup table holds these
\* rows after the call; without rows, and on a table without the column, the
\* backup table is as before.
C12_LegacyBackup ==
    [][(last'.op = "init_database" /\ last'.arg = 0)
          => IF "device_id" \in TableInfo(schema) /\ readings # <<>>
             THEN bakTable' /\ backup' = readings
             ELSE bakTable' = bakTable /\ backup' = backup]_vars

\* C13: an init_database right after an init_database, the storage refusing
\* no statement of either, leaves the database as the first left it and
\* returns True if the first did.
C13_InitIdempotent ==
    [][(/\ last.op = "init_database" /\ last.arg = 0
        /\ last'.op = "init_database" /\ last'.arg = 0)
          => /\ cfgTable' = cfgTable /\ config' = config
             /\ schema' = schema /\ readings' = readings
             /\ index' = index
             /\ bakTable' = bakTable /\ backup' = backup
             /\ (last.ret = RBool(TRUE) => last'.ret = RBool(TRUE))]_vars

\* The second of two init_database calls returned True after the first had
\* moved the rows of a legacy table to the backup table.
C13_Witness ==
    /\ last.op = "init_database"
    /\ last.arg = 0
    /\ last.ret = RBool(TRUE)
    /\ last.pre.prev = [op |-> "init_database", ret |-> RBool(TRUE)]
    /\ last.pre.schema = "current"
    /\ last.pre.count = 0
    /\ backup # <<>>
    /\ schema = "current"

\* C14: an init_database that returns False leaves the database as it was
\* before the call.
C14_FailedInitAtomic ==
    [][(last'.op = "init_database" /\ last'.ret = RBool(FALSE))
          => /\ cfgTable' = cfgTable /\ config' = config
             /\ schema' = schema /\ readings' = readings
             /\ index' = index
             /\ bakTable' = bakTable /\ backup' = backup]_vars


(***************************************************************************)
(* Storage failures in save_reading and in the queries.                    *)
(***************************************************************************)
\* C15: when the storage fails, save_reading inserts no row and returns
\* None, and each query returns a result that tells its caller of the
\* failure: one the query does not return when the storage works.
C15_FailureReported ==
    /\ \A id \in MeterIds, d \in QueryInputs :
          /\ SaveResult(id, d, FALSE).readings = readings
          /\ SaveResult(id, d, FALSE).ret = RNone
    /\ \A id \in MeterIds, hours \in QueryHours :
          GetMeterReadings(id, hours, FALSE)
              \cap GetMeterReadings(id, hours, TRUE) = {}
    /\ GetAllMetersLatest(FALSE) # GetAllMetersLatest(TRUE)
    /\ \A hours \in QueryHours :
          GetAggregatedData(hours, FALSE) # GetAggregatedData(hours, TRUE)


(***************************************************************************)
(* One meter object: it is connected and disconnected, its session is      *)
(* dropped, single registers and the whole batch are read, in live and in  *)
(* demo mode, the meter answering in every way.                            *)
(***************************************************************************)
MeterSpecIds == {"m1"}

\* Register addresses read one at a time: three of the map and one of none.
ReadAddresses == {1, 55, 801, 9999}

InitMeter == InitWith({0}) /\ tz = 0

NextMeter ==
    \/ \E id \in MeterSpecIds, a \in QueryArgs : AddMeter(id, a, TRUE)
    \/ \E id \in MeterSpecIds, o \in ConnectOutcomes : Connect(id, o)
    \/ \E id \in MeterSpecIds : Disconnect(id)
    \/ \E id \in MeterSpecIds : SessionDrop(id)
    \/ \E id \in MeterSpecIds, a \in ReadAddresses, w \in WireAnswers,
          v \in SimValues : ReadRegister(id, a, w, v)
    \/ \E id \in MeterSpecIds, w \in WirePatterns, v \in SimValues :
          ReadAllParameters(id, w, v)

SpecMeter == InitMeter /\ [][NextMeter]_vars

\* C16: read_all_parameters returns a dict with the keys of the register
\* map, whatever the state of the connection and the answers of the meter;
\* the value of a parameter is the value read_float32_register gives for its
\* own register and does not depend on the other reads.
C16_ReadAllTotal ==
    last.op = "read_all_parameters" =>
        /\ last.ret.t = "dict"
        /\ DOMAIN last.ret.d = DOMAIN Registers
        /\ \A p \in DOMAIN Registers :
              IF ~modbus THEN last.ret.d[p].k = "fin"
              ELSE last.ret.d[p] =
                      IF last.pre.client = "open" /\ last.arg[p].k = "fin"
                      THEN last.arg[p]
                      ELSE PyNone

\* A live batch in which one read failed and the others gave their values.
C16_Witness ==
    /\ last.op = "read_all_parameters"
    /\ modbus
    /\ last.pre.client = "open"
    /\ last.ret.d["Frequency"] = PyNone
    /\ \A p \in DOMAIN Registers \ {"Frequency"} : last.ret.d[p] = Fin(100)


\* C17: read_float32_register returns a finite value or None for every
\* address, in live and in demo mode and in every state of the connection;
\* an answer that is an error, raises, or decodes to NaN or to an infinity
\* gives None.
C17_FiniteOrAbsent ==
    last.op = "read_float32_register" =>
        /\ last.ret.k \in {"fin", "none"}
        /\ (modbus /\ last.arg.wire.k \in {"error", "raises", "nan", "inf"})
              => last.ret = PyNone

\* A live read on an open session whose answer decoded to an infinity.
C17_Witness ==
    /\ last.op = "read_float32_register"
    /\ modbus
    /\ last.pre.attempted
    /\ last.arg.wire = PosInf
    /\ last.ret = PyNone

\* C18: in live mode a meter whose connected flag is False gives None for
\* every address, and read_holding_registers is not called.
C18_NotLiveNoRead ==
    (last.op = "read_float32_register" /\ modbus /\ ~last.pre.connected)
        => last.ret = PyNone /\ ~last.pre.attempted


\* C19 as claimed: connect returns a boolean, the connected flag equals it,
\* and it is True exactly when the transport connected and the probe read
\* succeeded.
C19_ConnectOutcome ==
    last.op = "connect" =>
        /\ last.ret.t = "bool"
        /\ meters[last.id].connected = last.ret.b
        /\ last.ret.b <=> (modbus /\ last.arg = "ok")

\* C19 as amended: connect returns a boolean and the connected flag equals
\* it; in live mode it is True exactly when the transport connected and the
\* probe read succeeded, in demo mode it is True and no transport is used.
C19_ConnectOutcomeByMode ==
    last.op = "connect" =>
        /\ last.ret.t = "bool"
        /\ meters[last.id].connected = last.ret.b
        /\ IF modbus THEN last.ret.b <=> last.arg = "ok"
           ELSE last.ret.b /\ meters[last.id].client = "none"

\* A connected meter is connected again in live mode and the probe read
\* fails: connect returned False and the flag is False.
C19_Witness ==
    /\ last.op = "connect"
    /\ modbus
    /\ last.arg = "probe_error"
    /\ last.pre.connected
    /\ last.ret = RBool(FALSE)
    /\ ~meters[last.id].connected

\* C20: a meter object has at most one open session after any step, and a
\* connect right after a connect of the same meter with the same outcome
\* leaves the meter as the first left it and returns the same.
C20_OneSession ==
    [][/\ \A id \in DOMAIN meters' : meters'[id].sessions <= 1
       /\ (/\ last.op = "connect" /\ last'.op = "connect"
           /\ last'.id = last.id /\ last'.arg = last.arg
           /\ last.id \in DOMAIN meters)
             => /\ meters'[last.id] = meters[last.id]
                /\ last'.ret = last.ret]_vars

\* The second of two successful live connects in a row: one session is open.
C20_Witness ==
    /\ last.op = "connect"
    /\ modbus
    /\ last.arg = "ok"
    /\ last.pre.prev = [op |-> "connect", id |-> last.id, arg |-> "ok"]
    /\ last.pre.client = "open"
    /\ meters[last.id].sessions = 1
    /\ meters[last.id].client = "open"


\* C21: after disconnect, from any state of the connection, the connected
\* flag is False and the meter has no open session, and a further disconnect
\* would change nothing.
C21_DisconnectReleases ==
    last.op = "disconnect" =>
        /\ last.ret = RNone
        /\ ~meters[last.id].connected
        /\ meters[last.id].sessions = 0
        /\ meters[last.id].client # "open"
        /\ DisconnectedMeter(meters[last.id]) = meters[last.id]

\* A live meter left with an open session by a failed connect was
\* disconnected: its client is closed.
C21_Witness ==
    /\ last.op = "disconnect"
    /\ modbus
    /\ last.pre.client = "open"
    /\ ~last.pre.connected
    /\ meters[last.id].client = "closed"


(***************************************************************************)
(* The registry and its meters as a whole.                                 *)
(***************************************************************************)
\* C22: the connected flag of a meter turns from False to True, and a
\* session is opened, in a connect call of that meter only; every meter that
\* enters the registry is not connected.
C22_OnlyConnectConnects ==
    [][\A id \in DOMAIN meters' :
          IF id \in DOMAIN meters
          THEN ((~meters[id].connected /\ meters'[id].connected)
                  \/ meters'[id].sessions > meters[id].sessions)
                 => (last'.op = "connect" /\ last'.id = id)
          ELSE ~meters'[id].connected /\ meters'[id].sessions = 0]_vars

\* A batch was read in live mode from a meter whose connect had failed: the
\* meter is still not connected and has no open session.
C22_Witness ==
    /\ last.op = "read_all_parameters"
    /\ modbus
    /\ last.pre.client = "closed"
    /\ ~last.pre.connected
    /\ ~meters[last.id].connected
    /\ meters[last.id].sessions = 0


(***************************************************************************)
(* A poll: the batch of a meter is read, then saved, in one turn of a      *)
(* collect loop or by two calls with time passing between them; the host's *)
(* time zone is any offset from UTC.                                       *)
(***************************************************************************)
PollIds == {"m1"}

InitPoll == InitWith({0}) /\ modbus = FALSE

NextPoll ==
    \/ \E id \in PollIds, a \in QueryArgs : AddMeter(id, a, TRUE)
    \/ \E id \in PollIds, w \in SysWires, v \in SimValues :
         ReadAllParameters(id, w, v)
    \/ \E id \in PollIds \cap DOMAIN meters :
         /\ meters[id].last_reading # RNone
         /\ SaveReading(id, meters[id].last_reading.d, TRUE)
    \/ \E id \in PollIds, w \in SysWires, v \in SimValues :
         Collect(id, w, v, TRUE)
    \/ Tick

SpecPoll == InitPoll /\ [][NextPoll]_vars

\* C23: the row stored by a poll carries the time read_all_parameters
\* recorded for the batch (last_reading_time of the meter).
C23_BatchTimeStored ==
    (/\ last.op \in {"save_reading", "collect"}
     /\ last.ret # RNone
     /\ last.id \in DOMAIN meters
     /\ meters[last.id].last_reading = RDict(last.arg))
        => readings[Len(readings)].timestamp
              = meters[last.id].last_reading_time.n


\* C24: after every call the meter ids of the registry are the meter ids of
\* meters_config, and an add_meter or remove_meter that returns False leaves
\* the registry and meters_config as they were.
C24_RegistryMatchesConfig ==
    [][/\ DOMAIN meters' = {r.meter_id : r \in config'}
       /\ (last'.op \in {"add_meter", "remove_meter"}
             /\ last'.ret = RBool(FALSE))
            => (meters' = meters /\ config' = config)]_vars


\* C25: in live mode no add_meter, connect, disconnect or remove_meter
\* leaves behind an open session of a meter object that is no longer in the
\* registry: every open session is the session of a registered meter.
C25_NoOrphanSession ==
    [][(modbus /\ last'.op \in {"add_meter", "connect", "disconnect",
                                "remove_meter"})
          => orphans' = 0]_vars


(***************************************************************************)
(* The sqlite3 connection of a call.  Each method opens one and calls      *)
(* conn.close() at the end of its normal path only.  A call surely returns *)
(* with its connection open when save_reading takes its early return, and *)
(* when init_database fails at a statement after the first (a failure of   *)
(* the first statement, and of the other methods, may be the connect       *)
(* itself, which leaves no connection).                                    *)
(***************************************************************************)
ReturnsWithOpenConnection(l) ==
    CASE l.op = "save_reading" -> l.pre.dbok /\ l.ret = RNone
      [] l.op = "init_database" -> l.ret = RBool(FALSE) /\ l.arg # 1
      [] OTHER -> FALSE

\* C26: no call returns with the storage connection it opened still open.
C26_ConnectionClosed == ~ReturnsWithOpenConnection(last)


\* C27: every name of a batch read by a poll is a measurement column of the
\* reading table, and the row stored by a poll in which every read gave a
\* value has a value in every measurement column.
C27_MapMatchesColumns ==
    (last.op = "collect" /\ last.ret # RNone) =>
        /\ DOMAIN last.arg \subseteq MeasureColumns
        /\ (\A p \in DOMAIN last.arg : last.arg[p].k = "fin")
              => DOMAIN readings[Len(readings)].vals = MeasureColumns


\* C28: in live-protocol mode, after every connect and every disconnect a
\* meter whose connected flag is false holds no open session: a connect that
\* fails after the transport was opened releases the session it opened.
C28_NotConnectedNoSession ==
    [][(modbus /\ last'.op \in {"connect", "disconnect"}) =>
          \A id \in DOMAIN meters' :
              ~meters'[id].connected =>
                  /\ meters'[id].sessions = 0
                  /\ meters'[id].client # "open"]_vars

====
